---- MODULE Spec2Model ----
(***************************************************************************)
(* Model of the semantic-checker extension: the rule catalog (rules.js),   *)
(* the matching engine checkSemanticIssues and the command handler of      *)
(* extension.js, over documents represented as sequences of characters.    *)
(*                                                                         *)
(* Offsets, match indexes and lastIndex are 0-based as in JavaScript;      *)
(* a text is a TLA+ sequence, so the character at offset i is text[i+1].   *)
(***************************************************************************)
EXTENDS Integers, Sequences, FiniteSets, TLC

(***************************************************************************)
(* State.                                                                  *)
(***************************************************************************)
VARIABLES
    docText,      \* text of the document in the editor
    typed,        \* fragments typed into the document
    rulesKind,    \* what require("./scripts/rules") evaluated to
    lastIndex,    \* lastIndex of each rule's global pattern
    last,         \* the command that has just run (none after an edit)
    collections,  \* diagnostic collections created so far, oldest first
    nCmds,        \* commands run
    pre,          \* preprocessor: input and output of the last run
    report,       \* report assembler: input and output of the last run
    ext,          \* first version of the checker (extension.js): its last scan
    contrast      \* contrast functions: their argument and their results

vars == <<docText, typed, rulesKind, lastIndex, last, collections, nCmds, pre,
          report, ext, contrast>>

(***************************************************************************)
(* Characters and character classes of the JavaScript regular expressions. *)
(***************************************************************************)
UpperMap ==
    [A |-> "a", B |-> "b", C |-> "c", D |-> "d", E |-> "e", F |-> "f",
     G |-> "g", H |-> "h", I |-> "i", J |-> "j", K |-> "k", L |-> "l",
     M |-> "m", N |-> "n", O |-> "o", P |-> "p", Q |-> "q", R |-> "r",
     S |-> "s", T |-> "t", U |-> "u", V |-> "v", W |-> "w", X |-> "x",
     Y |-> "y", Z |-> "z"]

LowerLetters ==
    {"a","b","c","d","e","f","g","h","i","j","k","l","m",
     "n","o","p","q","r","s","t","u","v","w","x","y","z"}

UpperLetters == DOMAIN UpperMap

Digits == {"0","1","2","3","4","5","6","7","8","9"}

\* \s
SpaceChars == {" ", "\n", "\t", "\r", "\f"}

\* \w
WordChars == LowerLetters \cup UpperLetters \cup Digits \cup {"_"}

\* [0-9a-fA-F]
HexChars == Digits \cup {"a","b","c","d","e","f","A","B","C","D","E","F"}

\* [a-zA-Z\s\d]
AltTextChars == LowerLetters \cup UpperLetters \cup SpaceChars \cup Digits

QuoteChars == {"\"", "'"}

\* String.prototype.toLowerCase on one character; also the i flag.
LowerChar(c) == IF c \in UpperLetters THEN UpperMap[c] ELSE c

(***************************************************************************)
(* String literals of the source, as character sequences.                  *)
(***************************************************************************)
L_img ==
    <<"<","i","m","g">>
L_html ==
    <<"<","h","t","m","l">>
L_picture ==
    <<"<","p","i","c","t","u","r","e">>
L_picture_close ==
    <<"<","/","p","i","c","t","u","r","e",">">>
L_comment_open ==
    <<"<","!","-","-">>
L_comment_close ==
    <<"-","-",">">>
L_alt_eq ==
    <<"a","l","t","=">>
L_logo ==
    <<"l","o","g","o">>
L_logotipo ==
    <<"l","o","g","o","t","i","p","o">>
L_background_color ==
    <<"b","a","c","k","g","r","o","u","n","d","-","c","o","l","o","r">>
L_color ==
    <<"c","o","l","o","r">>
L_lang_eq ==
    <<"l","a","n","g","=">>
L_lang_empty ==
    <<"l","a","n","g","=","\"","\"">>
L_lang_xx ==
    <<"l","a","n","g","=","'","x","x","'">>
L_button ==
    <<"b","u","t","t","o","n">>
L_canvas ==
    <<"c","a","n","v","a","s">>
L_input ==
    <<"i","n","p","u","t">>
L_select ==
    <<"s","e","l","e","c","t">>
L_svg ==
    <<"s","v","g">>
L_alt_description ==
    <<" ","a","l","t","=","\"","d","e","s","c","r","i","p","t","i","o","n","\"">>
L_table ==
    <<"<","t","a","b","l","e">>
L_caption ==
    <<"<","c","a","p","t","i","o","n">>
L_thead_tag ==
    <<"<","t","h","e","a","d",">">>
L_tbody_tag ==
    <<"<","t","b","o","d","y",">">>
L_caption_tag ==
    <<"<","c","a","p","t","i","o","n",">">>
L_iframe ==
    <<"<","i","f","r","a","m","e">>
L_button_open ==
    <<"<","b","u","t","t","o","n">>
L_aria_label ==
    <<"a","r","i","a","-","l","a","b","e","l">>
L_aria_hidden ==
    <<"a","r","i","a","-","h","i","d","d","e","n">>
L_title_eq ==
    <<"t","i","t","l","e","=">>
L_aria_label_describe ==
    <<" ","a","r","i","a","-","l","a","b","e","l","=","\"","D","e","s","c","r","i","b","e"," ","a","c","t","i","o","n","\"">>
L_title_describe ==
    <<" ","t","i","t","l","e","=","\"","D","e","s","c","r","i","b","e"," ","t","h","e"," ","i","f","r","a","m","e"," ","c","o","n","t","e","n","t","\"">>
L_text ==
    <<"t","e","x","t">>
L_object ==
    <<"o","b","j","e","c","t">>
L_class_eq ==
    <<"c","l","a","s","s","=">>
L_visually_hidden ==
    <<"v","i","s","u","a","l","l","y","-","h","i","d","d","e","n">>
L_sr_only ==
    <<"s","r","-","o","n","l","y">>
L_width ==
    <<"w","i","d","t","h",":">>
L_max_width ==
    <<"m","a","x","-","w","i","d","t","h",":">>
L_px ==
    <<"p","x">>
L_vw ==
    <<"v","w">>
L_100pct ==
    <<"1","0","0","%">>
L_auto ==
    <<"a","u","t","o">>
L_fit_content ==
    <<"f","i","t","-","c","o","n","t","e","n","t">>
L_name_eq ==
    <<"n","a","m","e","=">>
L_type_eq ==
    <<"t","y","p","e","=">>
L_role ==
    <<"r","o","l","e">>
L_aria_ ==
    <<"a","r","i","a","-">>
L_textarea ==
    <<"t","e","x","t","a","r","e","a">>
L_form ==
    <<"f","o","r","m">>
L_a ==
    <<"a">>
L_p ==
    <<"p">>
L_body ==
    <<"b","o","d","y">>
L_div ==
    <<"d","i","v">>
L_main ==
    <<"m","a","i","n">>
L_section ==
    <<"s","e","c","t","i","o","n">>
L_script_open ==
    <<"<","s","c","r","i","p","t">>
L_script_close ==
    <<"<","/","s","c","r","i","p","t",">">>
L_style_open ==
    <<"<","s","t","y","l","e">>
L_style_close ==
    <<"<","/","s","t","y","l","e",">">>

(***************************************************************************)
(* String primitives.                                                      *)
(***************************************************************************)
\* text.slice(from, to)
Slice(text, from, to) == SubSeq(text, from + 1, to)

\* text.startsWith(lit, i)
StartsWithAt(text, i, lit) ==
    /\ i >= 0
    /\ i + Len(lit) <= Len(text)
    /\ \A k \in 1..Len(lit) : text[i + k] = lit[k]

\* the same under the i flag
StartsWithAtCI(text, i, lit) ==
    /\ i >= 0
    /\ i + Len(lit) <= Len(text)
    /\ \A k \in 1..Len(lit) : LowerChar(text[i + k]) = LowerChar(lit[k])

\* text.indexOf(lit, from); -1 when absent
IndexOfFrom(text, lit, from) ==
    IF \E i \in from..(Len(text) - Len(lit)) : StartsWithAt(text, i, lit)
    THEN CHOOSE i \in from..(Len(text) - Len(lit)) :
            /\ StartsWithAt(text, i, lit)
            /\ \A j \in from..(i - 1) : ~StartsWithAt(text, j, lit)
    ELSE -1

\* text.includes(lit)
Includes(text, lit) == IndexOfFrom(text, lit, 0) # -1

\* offset of the first ">" at or after from; -1 when absent
FirstGt(text, from) == IndexOfFrom(text, <<">">>, from)

\* end offset of the longest run of characters of class cls starting at i
RECURSIVE SkipClass(_, _, _)
SkipClass(text, i, cls) ==
    IF i < Len(text) /\ text[i + 1] \in cls
    THEN SkipClass(text, i + 1, cls)
    ELSE i

(***************************************************************************)
(* Regular expressions of the catalog.  A match is [index, end): index is  *)
(* match.index and end is index + match[0].length.                         *)
(***************************************************************************)
NoMatch == [index |-> -1, end |-> -1]

\* Leftmost match at or after from of  <(name1|name2|...)[^>]*>  where the
\* names are given without "<".  ci is the i flag; boundary is a \b right
\* after the name.  [^>]* (greedy or lazy) always ends at the first ">".
\* the pattern matches at offset p with the name n
OpenTagAt(text, p, n, ci, boundary) ==
    /\ text[p + 1] = "<"
    /\ IF ci THEN StartsWithAtCI(text, p + 1, n)
             ELSE StartsWithAt(text, p + 1, n)
    /\ boundary =>
         /\ p + 1 + Len(n) < Len(text)
         /\ text[p + 1 + Len(n) + 1] \notin WordChars
    /\ FirstGt(text, p + 1 + Len(n)) # -1

OpenTagExec(text, from, names, ci, boundary) ==
    IF \E p \in from..(Len(text) - 1) :
          \E n \in names : OpenTagAt(text, p, n, ci, boundary)
    THEN LET p == CHOOSE p \in from..(Len(text) - 1) :
                    /\ \E n \in names : OpenTagAt(text, p, n, ci, boundary)
                    /\ \A q \in from..(p - 1) :
                          \A n \in names : ~OpenTagAt(text, q, n, ci, boundary)
             n == CHOOSE n \in names : OpenTagAt(text, p, n, ci, boundary)
         IN  [index |-> p, end |-> FirstGt(text, p + 1 + Len(n)) + 1]
    ELSE NoMatch

\* a pattern that also finds a match that begins one character before from
R1_regex_fromBefore(text, from) ==
    OpenTagExec(text, IF from > 0 THEN from - 1 ELSE 0, {Tail(L_img)}, TRUE, TRUE)

\* R1   /<img\b[^>]*?(\/?)>/gi
R1_regex(text, from) == OpenTagExec(text, from, {Tail(L_img)}, TRUE, TRUE)

\* R46  /<img[^>]*>/g
R46_regex(text, from) == OpenTagExec(text, from, {Tail(L_img)}, FALSE, FALSE)

\* R49  /<(button|canvas|img|input|select|svg)[^>]*>/gi
R49_regex(text, from) ==
    OpenTagExec(text, from,
                {L_button, L_canvas, Tail(L_img), L_input, L_select, L_svg},
                TRUE, FALSE)

\* R67  /<html[^>]*>/gi
R67_regex(text, from) == OpenTagExec(text, from, {Tail(L_html)}, TRUE, FALSE)

\* the run [^>]* that starts at offset a contains lit
RunHas(text, a, lit) ==
    LET g == FirstGt(text, a)
        i == IndexOfFrom(text, lit, a)
    IN  i # -1 /\ i + Len(lit) <= (IF g = -1 THEN Len(text) ELSE g)

\* [^>]*>\s*[^<]+\s*<  matches at offset a: after the first ">" there is at
\* least one character before the next "<"
TextThenTag(text, a) ==
    LET g == FirstGt(text, a)
    IN  g # -1 /\ IndexOfFrom(text, <<"<">>, g + 1) >= g + 2

\* Leftmost match at or after from of  open(?![^>]*absent)[^>]*>  with, when
\* noText, the second lookahead  (?![^>]*>\s*[^<]+\s*<)  after open.
GuardedTagAt(text, p, open, absent, noText) ==
    /\ StartsWithAt(text, p, open)
    /\ ~RunHas(text, p + Len(open), absent)
    /\ noText => ~TextThenTag(text, p + Len(open))
    /\ FirstGt(text, p + Len(open)) # -1

GuardedTagExec(text, from, open, absent, noText) ==
    IF \E p \in from..(Len(text) - 1) :
          GuardedTagAt(text, p, open, absent, noText)
    THEN LET p == CHOOSE p \in from..(Len(text) - 1) :
                    /\ GuardedTagAt(text, p, open, absent, noText)
                    /\ \A q \in from..(p - 1) :
                          ~GuardedTagAt(text, q, open, absent, noText)
         IN  [index |-> p, end |-> FirstGt(text, p + Len(open)) + 1]
    ELSE NoMatch

\* R7   /<button(?![^>]*aria-label)(?![^>]*>\s*[^<]+\s*<)[^>]*>/g
R7_regex(text, from) ==
    GuardedTagExec(text, from, L_button_open, L_aria_label, TRUE)

\* R10  /<iframe(?![^>]*title=)[^>]*>/g
R10_regex(text, from) ==
    GuardedTagExec(text, from, L_iframe, L_title_eq, FALSE)

\* R22 and R35  /<table[^>]*>/g
R22_regex(text, from) == OpenTagExec(text, from, {Tail(L_table)}, FALSE, FALSE)

\* R23  /<caption[^>]*>/g
R23_regex(text, from) == OpenTagExec(text, from, {Tail(L_caption)}, FALSE, FALSE)

\* R28  /<h[1-6][^>]*>/g
HeadingNames == {<<"h", d>> : d \in {"1", "2", "3", "4", "5", "6"}}

R28_regex(text, from) == OpenTagExec(text, from, HeadingNames, FALSE, FALSE)

\* R47  /<(img|canvas|svg|object)[^>]*>/g
R47_regex(text, from) ==
    OpenTagExec(text, from, {Tail(L_img), L_canvas, L_svg, L_object},
                FALSE, FALSE)

\* R48 of scripts/rules.js  /<(a|body|div|html|img|main|p|section)[^>]*>/gi
R48_regex_legacy(text, from) ==
    OpenTagExec(text, from,
                {L_a, L_body, L_div, Tail(L_html), Tail(L_img), L_main, L_p,
                 L_section},
                TRUE, FALSE)

\* R81 of scripts/rules.js  /<(input|button|a|select|textarea|form|img)[^>]*>/gi
R81_regex_legacy(text, from) ==
    OpenTagExec(text, from,
                {L_input, L_button, L_a, L_select, L_textarea, L_form,
                 Tail(L_img)},
                TRUE, FALSE)

\* regex.exec(text) of a global pattern whose lastIndex is from: a lastIndex
\* beyond the end of the text fails at once.
\* R1 of scripts/rules.js  /<img[^>]*>/g
R1_regex_legacy(text, from) ==
    OpenTagExec(text, from, {Tail(L_img)}, FALSE, FALSE)

\* The rules R1, R48 and R81 differ between the two catalogs; the catalog
\* that was loaded decides which pattern an id stands for.
RegexExec(id, text, from) ==
    IF from > Len(text) THEN NoMatch
    ELSE CASE id = "R1"  -> IF rulesKind = "legacy"
                            THEN R1_regex_legacy(text, from)
                            ELSE R1_regex(text, from)
           [] id = "R7"  -> R7_regex(text, from)
           [] id = "R10" -> R10_regex(text, from)
           [] id = "R22" -> R22_regex(text, from)
           [] id = "R23" -> R23_regex(text, from)
           [] id = "R28" -> R28_regex(text, from)
           [] id = "R35" -> R22_regex(text, from)
           [] id = "R46" -> R46_regex(text, from)
           [] id = "R47" -> R47_regex(text, from)
           [] id = "R48" -> R48_regex_legacy(text, from)
           [] id = "R49" -> R49_regex(text, from)
           [] id = "R67" -> R67_regex(text, from)
           [] id = "R81" -> R81_regex_legacy(text, from)

(***************************************************************************)
(* Predicates (validate) of the catalog.                                   *)
(***************************************************************************)
\* /<picture[^>]*>[\s\S]*?<img[^>]*?>[\s\S]*?<\/picture>/gi.test(doc)
isInsidePicture(doc) ==
    \E p \in 0..(Len(doc) - 1) :
        /\ StartsWithAtCI(doc, p, L_picture)
        /\ LET g1 == FirstGt(doc, p + Len(L_picture))
           IN  /\ g1 # -1
               /\ \E q \in (g1 + 1)..(Len(doc) - 1) :
                     /\ StartsWithAtCI(doc, q, L_img)
                     /\ LET g2 == FirstGt(doc, q + Len(L_img))
                        IN  /\ g2 # -1
                            /\ \E c \in (g2 + 1)..(Len(doc) - 1) :
                                  StartsWithAtCI(doc, c, L_picture_close)

R1_validate(tag, doc) ==
    IF Includes(tag, L_comment_open) \/ Includes(tag, L_comment_close)
    THEN FALSE
    ELSE LET isMissingAlt == ~Includes(tag, L_alt_eq)
         IN  isMissingAlt \/ (isInsidePicture(doc) /\ ~Includes(tag, L_alt_eq))

\* tag.match(/alt=["'][a-zA-Z\s\d]{3,}["']/)
MatchAltText(tag) ==
    \E i \in 0..(Len(tag) - 1) :
        /\ StartsWithAt(tag, i, L_alt_eq)
        /\ i + 4 < Len(tag)
        /\ tag[i + 5] \in QuoteChars
        /\ LET e == SkipClass(tag, i + 5, AltTextChars)
           IN  /\ e - (i + 5) >= 3
               /\ e < Len(tag)
               /\ tag[e + 1] \in QuoteChars

\* tag.match(/alt=["']\s*["']/)
MatchAltBlank(tag) ==
    \E i \in 0..(Len(tag) - 1) :
        /\ StartsWithAt(tag, i, L_alt_eq)
        /\ i + 4 < Len(tag)
        /\ tag[i + 5] \in QuoteChars
        /\ LET e == SkipClass(tag, i + 5, SpaceChars)
           IN  /\ e < Len(tag)
               /\ tag[e + 1] \in QuoteChars

R46_validate(tag, doc) ==
    /\ Includes(tag, L_alt_eq)
    /\ MatchAltText(tag)
    /\ ~Includes(tag, L_logo)
    /\ ~Includes(tag, L_logotipo)
    /\ ~MatchAltBlank(tag)

\* /prop\s*:\s*#[0-9a-fA-F]{3,6}/.test(tag)
TestCssHex(tag, prop) ==
    \E i \in 0..(Len(tag) - 1) :
        /\ StartsWithAt(tag, i, prop)
        /\ LET a == SkipClass(tag, i + Len(prop), SpaceChars)
           IN  /\ a < Len(tag)
               /\ tag[a + 1] = ":"
               /\ LET b == SkipClass(tag, a + 1, SpaceChars)
                  IN  /\ b < Len(tag)
                      /\ tag[b + 1] = "#"
                      /\ SkipClass(tag, b + 1, HexChars) - (b + 1) >= 3

R49_validate(tag, doc) ==
    /\ TestCssHex(tag, L_background_color)
    /\ TestCssHex(tag, L_color)

R67_validate(tag, doc) ==
    \/ ~Includes(tag, L_lang_eq)
    \/ Includes(tag, L_lang_empty)
    \/ Includes(tag, L_lang_xx)

\* /<picture[^>]*>.*<img[^>]*>.*<\/picture>/gs.test(doc)  (scripts/rules.js)
isInsidePicture_legacy(doc) ==
    \E p \in 0..(Len(doc) - 1) :
        /\ StartsWithAt(doc, p, L_picture)
        /\ LET g1 == FirstGt(doc, p + Len(L_picture))
           IN  /\ g1 # -1
               /\ \E q \in (g1 + 1)..(Len(doc) - 1) :
                     /\ StartsWithAt(doc, q, L_img)
                     /\ LET g2 == FirstGt(doc, q + Len(L_img))
                        IN  /\ g2 # -1
                            /\ \E c \in (g2 + 1)..(Len(doc) - 1) :
                                  StartsWithAt(doc, c, L_picture_close)

R1_validate_legacy(tag, doc) ==
    LET isMissingAlt == ~Includes(tag, L_alt_eq)
    IN  isMissingAlt \/ (isInsidePicture_legacy(doc) /\ ~Includes(tag, L_alt_eq))

\* tag.match(/>\s*[^<]+\s*</)
MatchGtTextLt(tag) ==
    \E i \in 0..(Len(tag) - 1) :
        /\ tag[i + 1] = ">"
        /\ IndexOfFrom(tag, <<"<">>, i + 1) >= i + 2

R7_validate(tag, doc) ==
    ~Includes(tag, L_aria_label) /\ ~MatchGtTextLt(tag)

R10_validate(tag, doc) == ~Includes(tag, L_title_eq)

\* R22 and R35
R22_validate(tag, doc) ==
    ~Includes(doc, L_thead_tag) \/ ~Includes(doc, L_tbody_tag)

R23_validate(tag, doc) == ~Includes(doc, L_caption_tag)

\* a predicate that looks for <h1 only
R28_validate_h1Only(tag, doc) == ~Includes(doc, <<"<", "h", "1">>)

\* R28.validate: !doc.match(/<h[1-6][^>]*>/), a pattern without the g flag,
\* which searches the document from its start
R28_validate(tag, doc) == R28_regex(doc, 0) = NoMatch

\* s.toLowerCase()
toLowerCase(s) == [k \in 1..Len(s) |-> LowerChar(s[k])]

\* end offset of the longest run of characters outside cls starting at i
RECURSIVE SkipUntil(_, _, _)
SkipUntil(text, i, cls) ==
    IF i < Len(text) /\ text[i + 1] \notin cls
    THEN SkipUntil(text, i + 1, cls)
    ELSE i

\* doc.match(/class=["'][^"']*(visually-hidden|sr-only)[^"']*["']/)
MatchHiddenClass(doc) ==
    \E i \in 0..(Len(doc) - 1) :
        /\ StartsWithAt(doc, i, L_class_eq)
        /\ i + 6 < Len(doc)
        /\ doc[i + 7] \in QuoteChars
        /\ LET e == SkipUntil(doc, i + 7, QuoteChars)
           IN  /\ e < Len(doc)
               /\ \/ Includes(Slice(doc, i + 7, e), L_visually_hidden)
                  \/ Includes(Slice(doc, i + 7, e), L_sr_only)

R47_validate(tag, doc) ==
    /\ \E n \in {L_canvas, L_svg, L_object} : Includes(tag, <<"<">> \o n)
    /\ Includes(toLowerCase(doc), L_text)
    /\ ~Includes(tag, L_aria_label)
    /\ ~Includes(tag, L_aria_hidden)
    /\ ~MatchHiddenClass(doc)

\* doc.match(/width:\s*\d+(px|vw)/i)
MatchFixedWidth(doc) ==
    \E i \in 0..(Len(doc) - 1) :
        /\ StartsWithAtCI(doc, i, L_width)
        /\ LET a == SkipClass(doc, i + Len(L_width), SpaceChars)
               b == SkipClass(doc, a, Digits)
           IN  /\ b > a
               /\ StartsWithAtCI(doc, b, L_px) \/ StartsWithAtCI(doc, b, L_vw)

\* doc.match(/max-width:\s*(100%|auto|fit-content)/i)
MatchMaxWidth(doc) ==
    \E i \in 0..(Len(doc) - 1) :
        /\ StartsWithAtCI(doc, i, L_max_width)
        /\ LET a == SkipClass(doc, i + Len(L_max_width), SpaceChars)
           IN  \E v \in {L_100pct, L_auto, L_fit_content} :
                  StartsWithAtCI(doc, a, v)

\* R48 of scripts/rules.js
R48_validate_legacy(tag, doc) == MatchFixedWidth(doc) /\ ~MatchMaxWidth(doc)

\* R81 of scripts/rules.js
R81_validate_legacy(tag, doc) ==
    \/ /\ ~Includes(tag, L_aria_label)
       /\ ~Includes(tag, L_name_eq)
       /\ ~Includes(tag, L_type_eq)
    \/ /\ Includes(tag, L_role)
       /\ ~Includes(tag, L_aria_)

Validate(id, tag, doc) ==
    CASE id = "R1"  -> IF rulesKind = "legacy"
                       THEN R1_validate_legacy(tag, doc)
                       ELSE R1_validate(tag, doc)
      [] id = "R7"  -> R7_validate(tag, doc)
      [] id = "R10" -> R10_validate(tag, doc)
      [] id = "R22" -> R22_validate(tag, doc)
      [] id = "R23" -> R23_validate(tag, doc)
      [] id = "R28" -> R28_validate(tag, doc)
      [] id = "R35" -> R22_validate(tag, doc)
      [] id = "R46" -> R46_validate(tag, doc)
      [] id = "R47" -> R47_validate(tag, doc)
      [] id = "R48" -> R48_validate_legacy(tag, doc)
      [] id = "R49" -> R49_validate(tag, doc)
      [] id = "R67" -> R67_validate(tag, doc)
      [] id = "R81" -> R81_validate_legacy(tag, doc)

\* R1.autofix: null (no change) when the tag has alt=, otherwise
\* tag.replace(/(<img\b[^>]*?)(\/?>)/i, `$1 alt="description"$2`).
\* The result NoFix stands for null.
NoFix == <<"null">>

R1_autofix_dropSlash(tag) ==
    IF Includes(tag, L_alt_eq) THEN NoFix
    ELSE LET m == R1_regex(tag, 0)
         IN  IF m = NoMatch THEN tag
             ELSE LET gt == m.end - 1
                      cut == IF gt > 0 /\ tag[gt] = "/" THEN gt - 1 ELSE gt
                  IN  Slice(tag, 0, cut) \o L_alt_description \o Slice(tag, gt, Len(tag))

R1_autofix(tag) ==
    IF Includes(tag, L_alt_eq) THEN NoFix
    ELSE LET m == R1_regex(tag, 0)
         IN  IF m = NoMatch THEN tag
             ELSE LET gt == m.end - 1
                      cut == IF gt > 0 /\ tag[gt] = "/" THEN gt - 1 ELSE gt
                  IN  Slice(tag, 0, cut) \o L_alt_description \o Slice(tag, cut, Len(tag))

\* first occurrence of open in tag followed by attr, as
\* tag.replace(/<button/, '<button aria-label="Describe action"') does
InsertAfterFirst(tag, open, attr) ==
    LET i == IndexOfFrom(tag, open, 0)
    IN  IF i = -1 THEN tag
        ELSE Slice(tag, 0, i + Len(open)) \o attr
                \o Slice(tag, i + Len(open), Len(tag))

\* a transform that returns its tag unchanged
R7_autofix_noop(tag) == tag

\* R7.autofix: the tag itself when it has aria-label
R7_autofix(tag) ==
    IF Includes(tag, L_aria_label) THEN tag
    ELSE InsertAfterFirst(tag, L_button_open, L_aria_label_describe)

\* R10.autofix: the tag itself when it has title=
R10_autofix(tag) ==
    IF Includes(tag, L_title_eq) THEN tag
    ELSE InsertAfterFirst(tag, L_iframe, L_title_describe)

(***************************************************************************)
(* The rule catalogs (module.exports of rules.js), in catalog order.       *)
(* finalRules is the catalog with level and autofix fields; the model      *)
(* keeps its rules R1, R7, R10, R22, R23, R28, R35, R46, R47, R49, R67 and *)
(* the empty slot that the array literal has between R48 and R49.          *)
(* legacyRules is the catalog of scripts/rules.js, which has neither       *)
(* field; the model keeps its rules R1, R22, R23, R28, R35, R46, R47, R48, *)
(* R49, R67 and R81.  autofix tells whether the rule has an autofix        *)
(* transform.                                                              *)
(***************************************************************************)
Undefined == [undefined |-> TRUE]

IsHole(r) == "undefined" \in DOMAIN r

finalRules ==
    << [id |-> "R1",  level |-> "A",  autofix |-> TRUE,
        message |-> "Image without alt attribute"],
       [id |-> "R7",  level |-> "A",  autofix |-> TRUE,
        message |-> "Button missing accessible name"],
       [id |-> "R10", level |-> "A",  autofix |-> TRUE,
        message |-> "Iframe missing title attribute"],
       [id |-> "R22", level |-> "A",  autofix |-> FALSE,
        message |-> "Table missing semantic structure"],
       [id |-> "R23", level |-> "A",  autofix |-> FALSE,
        message |-> "Table missing caption"],
       [id |-> "R28", level |-> "A",  autofix |-> FALSE,
        message |-> "Content missing heading structure"],
       [id |-> "R35", level |-> "A",  autofix |-> FALSE,
        message |-> "Table with illogical row/column order"],
       [id |-> "R46", level |-> "AA", autofix |-> FALSE,
        message |-> "Image of text used instead of HTML text"],
       [id |-> "R47", level |-> "AAA", autofix |-> FALSE,
        message |-> "Text rendered with image elements instead of HTML"],
       Undefined,
       [id |-> "R49", level |-> "AA", autofix |-> FALSE,
        message |-> "Non-text UI element might have insufficient contrast"],
       [id |-> "R67", level |-> "A",  autofix |-> FALSE,
        message |-> "Missing or incorrect lang attribute on <html>"] >>

legacyRules ==
    << [id |-> "R1",  autofix |-> FALSE,
        message |-> "Image without alt attribute"],
       [id |-> "R22", autofix |-> FALSE,
        message |-> "Table missing semantic structure"],
       [id |-> "R23", autofix |-> FALSE,
        message |-> "Table missing caption"],
       [id |-> "R28", autofix |-> FALSE,
        message |-> "Content missing heading structure"],
       [id |-> "R35", autofix |-> FALSE,
        message |-> "Table with illogical row/column order"],
       [id |-> "R46", autofix |-> FALSE,
        message |-> "Image of text used instead of HTML text"],
       [id |-> "R47", autofix |-> FALSE,
        message |-> "Text rendered with image elements instead of HTML"],
       [id |-> "R48", autofix |-> FALSE,
        message |-> "Layout does not adapt to viewport size"],
       [id |-> "R49", autofix |-> FALSE,
        message |-> "Non-text UI element might have insufficient contrast"],
       [id |-> "R67", autofix |-> FALSE,
        message |-> "Missing or incorrect lang attribute on <html>"],
       [id |-> "R81", autofix |-> FALSE,
        message |-> "Missing accessible name, role, or value"] >>

\* const rules = require("./scripts/rules"): the catalog that was loaded.
\* (For a missing catalog only the ids of the patterns are taken from it.)
rules == IF rulesKind = "legacy" THEN legacyRules ELSE finalRules

\* Array.isArray(rules)
IsArray(kind) == kind \in {"array", "legacy"}

\* the id fields of all rules of a catalog file, in catalog order (the two
\* catalog files give the same list)
catalogIds_R2twice ==
    <<"R1", "R2", "R2", "R4", "R5", "R6", "R7", "R8", "R9", "R10", "R11",
       "R12", "R13", "R14", "R15", "R16", "R17", "R18", "R19", "R20", "R21",
       "R22", "R23", "R24", "R25", "R26", "R27", "R28", "R29", "R30", "R31",
       "R32", "R33", "R34", "R35", "R36", "R37", "R38", "R39", "R40", "R41",
       "R42", "R43", "R44", "R45", "R46", "R47", "R48", "R49", "R50", "R51",
       "R52", "R53", "R54", "R55", "R56", "R57", "R58", "R59", "R60", "R61",
       "R62", "R63", "R64", "R65", "R66", "R67", "R68", "R69", "R70", "R71",
       "R72", "R73", "R74", "R75", "R76", "R77", "R78", "R79", "R80", "R81",
       "R82">>

catalogIds ==
    <<"R1", "R2", "R3", "R4", "R5", "R6", "R7", "R8", "R9", "R10", "R11",
       "R12", "R13", "R14", "R15", "R16", "R17", "R18", "R19", "R20", "R21",
       "R22", "R23", "R24", "R25", "R26", "R27", "R28", "R29", "R30", "R31",
       "R32", "R33", "R34", "R35", "R36", "R37", "R38", "R39", "R40", "R41",
       "R42", "R43", "R44", "R45", "R46", "R47", "R48", "R49", "R50", "R51",
       "R52", "R53", "R54", "R55", "R56", "R57", "R58", "R59", "R60", "R61",
       "R62", "R63", "R64", "R65", "R66", "R67", "R68", "R69", "R70", "R71",
       "R72", "R73", "R74", "R75", "R76", "R77", "R78", "R79", "R80", "R81",
       "R82">>

RuleSlots == {k \in 1..Len(rules) : ~IsHole(rules[k])}

RuleIds == {rules[k].id : k \in RuleSlots}

RuleIndex(id) == CHOOSE k \in RuleSlots : rules[k].id = id

(***************************************************************************)
(* Host document: document.positionAt(offset), 0-based line and character. *)
(***************************************************************************)
positionAt(text, offset) ==
    LET off      == IF offset > Len(text) THEN Len(text) ELSE offset
        newlines == {k \in 1..off : text[k] = "\n"}
        lineStart == IF newlines = {} THEN 0
                     ELSE CHOOSE k \in newlines : \A j \in newlines : j <= k
    IN  [line |-> Cardinality(newlines), character |-> off - lineStart]

(***************************************************************************)
(* The matching engine: checkSemanticIssues(documentText, document).       *)
(***************************************************************************)
\* rules.find((r) => r.message === message)?.id || "R?"
\* find visits every index, empty slots included, and reading .message of
\* undefined throws: the result "TypeError" stands for that exception.
RECURSIVE FindFrom(_, _)
FindFrom(k, message) ==
    IF k > Len(rules) THEN "R?"
    ELSE IF IsHole(rules[k]) THEN "TypeError"
    ELSE IF rules[k].message = message THEN rules[k].id
    ELSE FindFrom(k + 1, message)

FindRuleId(message) == FindFrom(1, message)

\* the issue pushed for a validated match
IssueAt_shortEnd(rule, label, text, match) ==
    LET tag   == Slice(text, match.index, match.end)
        start == positionAt(text, match.index)
        end   == positionAt(text, match.index + Len(tag) - 1)
    IN  [message   |-> rule.message,
         label     |-> label,
         startLine |-> start.line,
         startChar |-> start.character,
         endLine   |-> end.line,
         endChar   |-> end.character]

IssueAt(rule, label, text, match) ==
    LET tag   == Slice(text, match.index, match.end)
        start == positionAt(text, match.index)
        end   == positionAt(text, match.index + Len(tag))
    IN  [message   |-> rule.message,
         label     |-> label,
         startLine |-> start.line,
         startChar |-> start.character,
         endLine   |-> end.line,
         endChar   |-> end.character]

\* issues.push(issue)
PushIssue_unshift(issues, issue) == <<issue>> \o issues

PushIssue(issues, issue) == Append(issues, issue)

\* One turn of the while loop of a rule, match being what regex.exec gave:
\* null ends the loop and leaves lastIndex at 0; otherwise lastIndex is the
\* end of the match, the tag is validated and, when flagged, labelled and
\* pushed.  An exception in the label lookup leaves the loop.
RECURSIVE RuleLoop(_, _, _, _)
MatchStep(rule, text, issues, match) ==
    IF match = NoMatch
    THEN [issues |-> issues, lastIndex |-> 0, threw |-> FALSE]
    ELSE IF Validate(rule.id, Slice(text, match.index, match.end), text)
    THEN LET label == FindRuleId(rule.message)
         IN  IF label = "TypeError"
             THEN [issues |-> issues, lastIndex |-> match.end, threw |-> TRUE]
             ELSE RuleLoop(rule, text, match.end,
                           PushIssue(issues, IssueAt(rule, label, text, match)))
    ELSE RuleLoop(rule, text, match.end, issues)

\* The while loop of one rule: while ((match = regex.exec(documentText)) !== null).
\* from is the pattern's lastIndex when the loop is entered.
RuleLoop(rule, text, from, issues) ==
    MatchStep(rule, text, issues, RegexExec(rule.id, text, from))

\* rules.forEach(...): catalog order, empty slots skipped; an exception in
\* the callback ends the traversal.  li maps each rule id to the lastIndex
\* of its pattern; evaluated collects the rules whose loop was entered.
RECURSIVE ForEachRule(_, _, _, _, _)
\* after the callback of rules[k], r being what its loop gave
AfterRule(k, text, li, evaluated, r) ==
    IF r.threw
    THEN [issues |-> r.issues,
          lastIndex |-> [li EXCEPT ![rules[k].id] = r.lastIndex],
          threw |-> TRUE, evaluated |-> evaluated]
    ELSE ForEachRule(k + 1, text, [li EXCEPT ![rules[k].id] = r.lastIndex],
                     r.issues, evaluated)

ForEachRule(k, text, li, issues, evaluated) ==
    IF k > Len(rules)
    THEN [issues |-> issues, lastIndex |-> li, threw |-> FALSE,
          evaluated |-> evaluated]
    ELSE IF IsHole(rules[k])
    THEN ForEachRule(k + 1, text, li, issues, evaluated)
    ELSE AfterRule(k, text, li, evaluated \cup {rules[k].id},
                   RuleLoop(rules[k], text, li[rules[k].id], issues))

\* kind is what require("./scripts/rules") gave: "array", or "undefined"
\* for a catalog that is missing.  rules.forEach is called first, so a
\* missing catalog throws there; the guard  !rules || !Array.isArray(rules)
\* is only reached after the traversal.
AfterForEach(kind, r) ==
    IF r.threw
    THEN [outcome |-> "threw", issues |-> <<>>,
          lastIndex |-> r.lastIndex, evaluated |-> r.evaluated,
          rulesError |-> FALSE]
    ELSE IF ~IsArray(kind)
    THEN [outcome |-> "returned", issues |-> <<>>,
          lastIndex |-> r.lastIndex, evaluated |-> r.evaluated,
          rulesError |-> TRUE]
    ELSE [outcome |-> "returned", issues |-> r.issues,
          lastIndex |-> r.lastIndex, evaluated |-> r.evaluated,
          rulesError |-> FALSE]

checkSemanticIssues(text, li, kind) ==
    IF kind = "undefined"
    THEN [outcome |-> "threw", issues |-> <<>>, lastIndex |-> li,
          evaluated |-> {}, rulesError |-> FALSE]
    ELSE AfterForEach(kind, ForEachRule(1, text, li, <<>>, {}))

(***************************************************************************)
(* Autofix applicator (applyFixes) and the host's batch edit.              *)
(***************************************************************************)
\* document.offsetAt(position)
RECURSIVE LineStart(_, _, _)
LineStart(text, line, from) ==
    IF line = 0 THEN from
    ELSE LET nl == IndexOfFrom(text, <<"\n">>, from)
         IN  IF nl = -1 THEN Len(text) ELSE LineStart(text, line - 1, nl + 1)

offsetAt(text, line, character) ==
    LET off == LineStart(text, line, 0) + character
    IN  IF off > Len(text) THEN Len(text) ELSE off

\* the autofix transform of a rule, applied to the text of a span
Autofix(id, tag) ==
    CASE id = "R1"  -> R1_autofix(tag)
      [] id = "R7"  -> R7_autofix(tag)
      [] id = "R10" -> R10_autofix(tag)
      [] OTHER      -> NoFix

\* One replacement per finding whose owning rule has an autofix transform
\* that returns a text different from the span text; spans are offsets of
\* the snapshot text.
SpanFix(text, label, start, end) ==
    [start |-> start, end |-> end,
     newText |-> Autofix(label, Slice(text, start, end))]

\* a batch with one replacement per finding, whatever its rule
applyFixes_everyFinding(text, issues) ==
    {SpanFix(text, issues[n].label,
             offsetAt(text, issues[n].startLine, issues[n].startChar),
             offsetAt(text, issues[n].endLine, issues[n].endChar)) :
        n \in 1..Len(issues)}

applyFixes(text, issues) ==
    LET fixable(f) == \E k \in RuleSlots :
                         rules[k].id = f.label /\ rules[k].autofix
        fix(f) == SpanFix(text, f.label,
                          offsetAt(text, f.startLine, f.startChar),
                          offsetAt(text, f.endLine, f.endChar))
    IN  {r \in {fix(issues[n]) : n \in {m \in 1..Len(issues) : fixable(issues[m])}} :
            /\ r.newText # NoFix
            /\ r.newText # Slice(text, r.start, r.end)}

\* two replacements of a batch overlap
Overlapping(batch) ==
    \E a, b \in batch : a # b /\ a.start < b.end /\ b.start < a.end

\* all replacements applied at once, each at its offsets in the snapshot
RECURSIVE ApplyBatch(_, _, _)
ApplyBatch(text, batch, cursor) ==
    IF batch = {} THEN Slice(text, cursor, Len(text))
    ELSE LET r == CHOOSE x \in batch : \A y \in batch : x.start <= y.start
         IN  Slice(text, cursor, r.start) \o r.newText
                \o ApplyBatch(text, batch \ {r}, r.end)

(***************************************************************************)
(* Text preprocessor: comments and script/style elements are blanked in    *)
(* place, newlines kept.                                                   *)
(***************************************************************************)
Filler == " "

\* the characters of [from, to) replaced by filler, newlines kept
Blank_newlinesToo(text, from, to) ==
    [k \in 1..Len(text) |-> IF k > from /\ k <= to THEN Filler ELSE text[k]]

Blank(text, from, to) ==
    [k \in 1..Len(text) |->
        IF k > from /\ k <= to /\ text[k] # "\n" THEN Filler ELSE text[k]]

\* offset of the first occurrence of lit at or after from, case-insensitive
IndexOfFromCI(text, lit, from) ==
    IF \E i \in from..(Len(text) - Len(lit)) : StartsWithAtCI(text, i, lit)
    THEN CHOOSE i \in from..(Len(text) - Len(lit)) :
            /\ StartsWithAtCI(text, i, lit)
            /\ \A j \in from..(i - 1) : ~StartsWithAtCI(text, j, lit)
    ELSE -1

\* every region that starts with open and runs to the nearest close (or to
\* the end of the text when there is none) is blanked
RECURSIVE BlankRegions(_, _, _, _)
BlankRegions(text, open, close, cursor) ==
    LET a == IndexOfFromCI(text, open, cursor)
    IN  IF a = -1 THEN text
        ELSE LET c == IndexOfFromCI(text, close, a + Len(open))
                 b == IF c = -1 THEN Len(text) ELSE c + Len(close)
             IN  BlankRegions(Blank(text, a, b), open, close, b)

preprocess(text) ==
    LET noComments == BlankRegions(text, L_comment_open, L_comment_close, 0)
        noScripts  == BlankRegions(noComments, L_script_open, L_script_close, 0)
    IN  BlankRegions(noScripts, L_style_open, L_style_close, 0)

(***************************************************************************)
(* Bounds and inputs.                                                      *)
(***************************************************************************)
\* fragments typed into one document
MaxFrags == 2

\* commands run in one behaviour
MaxCommands == 2

\* fragments of a preprocessor input
MaxPreFrags == 3

\* findings of a report assembler input
MaxFindings == 4

FragImgNoAlt ==
    <<"<","i","m","g"," ","s","r","c","=","\"","a",".","p","n","g","\"",">">>
FragImgInComment ==
    <<"<","!","-","-"," ","<","i","m","g"," ","s","r","c","=","\"","a",".","p","n","g","\"",">"," ","-","-",">">>
FragSvgColors ==
    <<"<","s","v","g"," ","b","a","c","k","g","r","o","u","n","d","-","c","o","l","o","r",":","#","a","b","c",">">>
FragImgAlt ==
    <<"<","i","m","g"," ","a","l","t","=","\"","a","b","c","\"",">">>
FragImgMultiline ==
    <<"<","I","M","G","\n","s","r","c","=","\"","a","\"","/",">">>

FragTable ==
    <<"<","t","a","b","l","e",">","<","t","r",">","<","t","d",">","x","<","/","t","d",">","<","/","t","r",">","<","/","t","a","b","l","e",">">>
FragButton ==
    <<"<","b","u","t","t","o","n",">">>
FragIframe ==
    <<"<","i","f","r","a","m","e"," ","s","r","c","=","\"","x","\"",">">>
FragImgButton ==
    <<"<","i","m","g"," ","<","b","u","t","t","o","n",">">>

\* fragments typed before a scan
Frags == {FragImgNoAlt, FragImgInComment, FragSvgColors, FragImgAlt,
          FragImgMultiline}

FragHeading ==
    <<"<","h","2",">","T","<","/","h","2",">">>
FragHeadingAttr ==
    <<"<","h","1"," ","i","d","=","\"","t","\"",">">>

\* fragments typed before a scan of a document with headings
HeadingFrags == {FragHeading, FragHeadingAttr, FragImgNoAlt}

\* fragments of the two documented scenarios
ScenarioFrags == {FragImgNoAlt, FragTable}

\* fragments typed before a fix
FixFrags == {FragImgNoAlt, FragImgAlt, FragImgMultiline, FragButton,
             FragIframe, FragImgButton}

\* level fields of the findings given to the report assembler
Levels == {<<"A">>, <<"a">>, <<"A","A">>, <<"a","A">>, <<"A","A","A">>,
           <<"a","a","a">>}

FindingLists ==
    UNION {[1..n -> {[level |-> l] : l \in Levels}] : n \in 0..MaxFindings}

PreScriptOpen ==
    <<"<","s","c","r","i","p","t",">">>
PreScriptClose ==
    <<"<","/","S","C","R","I","P","T",">">>
PreStyleOpen ==
    <<"<","s","t","y","l","e",">">>
PreText ==
    <<"a","\n","b">>
PreImg ==
    <<"<","i","m","g",">">>

PreFrags == {L_comment_open, L_comment_close, PreScriptOpen, PreScriptClose,
             PreStyleOpen, L_style_close, PreText, PreImg}

RECURSIVE Concat(_)
Concat(fs) == IF fs = <<>> THEN <<>> ELSE Head(fs) \o Concat(Tail(fs))

PreDocs == {Concat(fs) : fs \in UNION {[1..n -> PreFrags] : n \in 0..MaxPreFrags}}

Contexts == {"none", "html", "other"}

NoCommand ==
    [cmd |-> "none", ctx |-> "none", text |-> <<>>, outcome |-> "none",
     issues |-> <<>>, evaluated |-> {}, messages |-> <<>>, fix |-> "none",
     before |-> [id \in RuleIds |-> 0]]

(***************************************************************************)
(* Contrast functions of the first version of the checker (extension.js).  *)
(* A JavaScript number is [nan, val]: nan tells NaN, val the integer.      *)
(***************************************************************************)
Num(v) == [nan |-> FALSE, val |-> v]

NaN == [nan |-> TRUE, val |-> 0]

HexDigitSeq ==
    <<"0","1","2","3","4","5","6","7","8","9","a","b","c","d","e","f">>

\* the value of one hexadecimal digit
HexVal(c) == CHOOSE v \in 0..15 : HexDigitSeq[v + 1] = LowerChar(c)

\* the value of a run of hexadecimal digits
RECURSIVE HexValue(_)
HexValue(ds) ==
    IF ds = <<>> THEN 0
    ELSE 16 * HexValue(SubSeq(ds, 1, Len(ds) - 1)) + HexVal(ds[Len(ds)])

\* parseInt(s, 16): leading white space, a sign and a 0x prefix are
\* skipped, the longest run of hexadecimal digits that follows is the
\* value; NaN when the run is empty.
parseInt16(s) ==
    LET a    == SkipClass(s, 0, SpaceChars)
        sgn  == a < Len(s) /\ s[a + 1] \in {"+", "-"}
        b    == IF sgn THEN a + 1 ELSE a
        c    == IF StartsWithAtCI(s, b, <<"0", "x">>) THEN b + 2 ELSE b
        e    == SkipClass(s, c, HexChars)
    IN  IF e = c THEN NaN
        ELSE IF sgn /\ s[a + 1] = "-" THEN Num(0 - HexValue(Slice(s, c, e)))
        ELSE Num(HexValue(Slice(s, c, e)))

\* hexToRgb(hex); hex[1] of the code is hex[2] here
hexToRgb(hex) ==
    IF Len(hex) = 7
    THEN <<parseInt16(<<hex[2], hex[3]>>), parseInt16(<<hex[4], hex[5]>>),
           parseInt16(<<hex[6], hex[7]>>)>>
    ELSE <<Num(0), Num(0), Num(0)>>

\* c / 255 <= 0.03928 ? c / 255 / 12.92 : Math.pow((c / 255 + 0.055) / 1.055, 2.4)
\* for c = 0..255, in units of 1/10000 and rounded to the nearest unit
srgbLinear ==
    <<
       0, 3, 6, 9, 12, 15, 18, 21, 24, 27, 30, 33, 37, 40, 44, 48,
       52, 56, 60, 65, 70, 75, 80, 86, 91, 97, 103, 110, 116, 123, 130, 137,
       144, 152, 160, 168, 176, 185, 194, 203, 212, 222, 232, 242, 252, 262, 273, 284,
       296, 307, 319, 331, 343, 356, 369, 382, 395, 409, 423, 437, 452, 467, 482, 497,
       513, 529, 545, 561, 578, 595, 612, 630, 648, 666, 685, 704, 723, 742, 762, 782,
       802, 823, 844, 865, 887, 908, 931, 953, 976, 999, 1022, 1046, 1070, 1095, 1119, 1144,
       1170, 1195, 1221, 1248, 1274, 1301, 1329, 1356, 1384, 1413, 1441, 1470, 1500, 1529, 1559, 1590,
       1620, 1651, 1683, 1714, 1746, 1779, 1812, 1845, 1878, 1912, 1946, 1981, 2016, 2051, 2086, 2122,
       2159, 2195, 2232, 2270, 2307, 2346, 2384, 2423, 2462, 2502, 2542, 2582, 2623, 2664, 2705, 2747,
       2789, 2831, 2874, 2918, 2961, 3005, 3050, 3095, 3140, 3185, 3231, 3278, 3325, 3372, 3419, 3467,
       3515, 3564, 3613, 3663, 3712, 3763, 3813, 3864, 3916, 3968, 4020, 4072, 4125, 4179, 4233, 4287,
       4342, 4397, 4452, 4508, 4564, 4621, 4678, 4735, 4793, 4851, 4910, 4969, 5029, 5089, 5149, 5210,
       5271, 5333, 5395, 5457, 5520, 5583, 5647, 5711, 5776, 5841, 5906, 5972, 6038, 6105, 6172, 6240,
       6308, 6376, 6445, 6514, 6584, 6654, 6724, 6795, 6867, 6939, 7011, 7084, 7157, 7231, 7305, 7379,
       7454, 7529, 7605, 7682, 7758, 7835, 7913, 7991, 8070, 8148, 8228, 8308, 8388, 8469, 8550, 8632,
       8714, 8796, 8879, 8963, 9047, 9131, 9216, 9301, 9387, 9473, 9560, 9647, 9734, 9823, 9911, 10000 >>

\* luminance(rgb) in units of 10^-8, for components in 0..255 (the
\* components contrastRatio gets: isValidContrast tests the colour first)
luminance(rgb) ==
    2126 * srgbLinear[rgb[1].val + 1] + 7152 * srgbLinear[rgb[2].val + 1]
       + 722 * srgbLinear[rgb[3].val + 1]

\* contrastRatio(color1, color2) as the fraction num / den of
\* (L1 + 0.05) and (L2 + 0.05), L1 the larger luminance
contrastRatio(color1, color2) ==
    LET luminance1 == luminance(hexToRgb(color1))
        luminance2 == luminance(hexToRgb(color2))
    IN  IF luminance1 > luminance2
        THEN [num |-> luminance1 + 5000000, den |-> luminance2 + 5000000]
        ELSE [num |-> luminance2 + 5000000, den |-> luminance1 + 5000000]

\* ratio >= 4.5
AtLeast4_5(ratio) == 2 * ratio.num >= 9 * ratio.den

\* /^#[0-9a-fA-F]{6}$/.test(color)
IsHex6(color) ==
    /\ Len(color) = 7
    /\ color[1] = "#"
    /\ \A k \in 2..7 : color[k] \in HexChars

L_white == <<"#","F","F","F","F","F","F">>

\* isValidContrast(color): true for a text that is not # and six
\* hexadecimal digits, otherwise contrast against white >= 4.5
isValidContrast(color) ==
    IF ~IsHex6(color) THEN TRUE
    ELSE AtLeast4_5(contrastRatio(color, L_white))

NoPre == [done |-> FALSE, input |-> <<>>, output |-> <<>>]

NoReport == [done |-> FALSE, findings |-> <<>>, total |-> 0,
             bySeverity |-> [L \in {} |-> 0]]

NoExt == [done |-> FALSE, ctx |-> "none", text |-> <<>>, outcome |-> "none",
          issues |-> <<>>, returned |-> <<>>, alt |-> <<>>, messages |-> <<>>]

NoContrast == [done |-> FALSE, input |-> <<>>, valid |-> FALSE,
               rgb |-> <<Num(0), Num(0), Num(0)>>]

Init ==
    /\ docText = <<>>
    /\ typed = 0
    /\ rulesKind \in {"array", "undefined"}
    /\ lastIndex = [id \in RuleIds |-> 0]
    /\ last = NoCommand
    /\ collections = <<>>
    /\ nCmds = 0
    /\ pre = NoPre
    /\ report = NoReport
    /\ ext = NoExt
    /\ contrast = NoContrast

(***************************************************************************)
(* Editing.                                                                *)
(***************************************************************************)
Type(f) ==
    /\ typed < MaxFrags
    /\ docText' = docText \o f
    /\ typed' = typed + 1
    /\ last' = NoCommand
    /\ UNCHANGED <<rulesKind, lastIndex, collections, nCmds, pre, report, ext,
                   contrast>>

(***************************************************************************)
(* Command extension.checkSemanticHTML.                                    *)
(***************************************************************************)
Msg(kind, text, count) == [kind |-> kind, text |-> text, count |-> count]

MsgNotHtml == Msg("error", "This is not an HTML file.", 0)
MsgRules   == Msg("error", "Rules not loaded properly.", 0)
MsgOk      == Msg("information", "The HTML meets accessibility requirements.", 0)
MsgFound(n) == Msg("warning", "Found issues. See details in the editor.", n)

\* showGitHubCopilotMessage(): one information message in either branch
\* (Copilot installed or not); the two texts are not told apart.
showGitHubCopilotMessage == Msg("information", "GitHub Copilot", 0)

SummaryMessage(issues) == IF Len(issues) = 0 THEN MsgOk ELSE MsgFound(Len(issues))

\* editor && editor.document.languageId === "html"
IsHtmlContext_anyEditor(ctx) == ctx # "none"

IsHtmlContext(ctx) == ctx = "html"

CheckCommand(ctx) ==
    /\ nCmds < MaxCommands
    /\ nCmds' = nCmds + 1
    /\ IF IsHtmlContext(ctx)
       THEN \E r \in {checkSemanticIssues(docText, lastIndex, rulesKind)} :
                /\ lastIndex' = r.lastIndex
                /\ IF r.outcome = "threw"
                   THEN /\ last' = [cmd |-> "check", ctx |-> ctx, text |-> docText,
                                    outcome |-> "threw", issues |-> <<>>,
                                    evaluated |-> r.evaluated, messages |-> <<>>,
                                    fix |-> "none", before |-> lastIndex]
                        /\ UNCHANGED collections
                   ELSE /\ last' = [cmd |-> "check", ctx |-> ctx, text |-> docText,
                                    outcome |-> "returned", issues |-> r.issues,
                                    evaluated |-> r.evaluated,
                                    messages |->
                                       (IF r.rulesError THEN <<MsgRules>> ELSE <<>>)
                                       \o <<SummaryMessage(r.issues),
                                            showGitHubCopilotMessage>>,
                                    fix |-> "none", before |-> lastIndex]
                        /\ collections' = Append(collections, r.issues)
       ELSE /\ last' = [cmd |-> "check", ctx |-> ctx, text |-> <<>>,
                        outcome |-> "notHtml", issues |-> <<>>, evaluated |-> {},
                        messages |-> <<MsgNotHtml>>, fix |-> "none",
                        before |-> lastIndex]
            /\ UNCHANGED <<lastIndex, collections>>
    /\ UNCHANGED <<docText, typed, rulesKind, pre, report, ext, contrast>>

(***************************************************************************)
(* Command extension.fixSemanticHTML: scan, offer the fixes, and on        *)
(* confirmation submit all replacements as one batch.  The user may        *)
(* decline, and the host may refuse the batch edit (it does refuse         *)
(* overlapping replacements); nothing is edited in either case.            *)
(***************************************************************************)
MsgFixed  == Msg("information", "Fixes applied.", 0)
MsgFixFailed == Msg("error", "Could not apply fixes.", 0)
MsgNothingToFix == Msg("information", "No automatic fixes available.", 0)

\* the host's answer to the batch: every replacement is applied, or none
CommitBatch_firstOnly(text, batch, fix) ==
    IF fix = "applied" THEN ApplyBatch(text, batch, 0)
    ELSE IF fix = "failed"
    THEN ApplyBatch(text,
             {CHOOSE x \in batch : \A y \in batch : x.start <= y.start}, 0)
    ELSE text

CommitBatch(text, batch, fix) ==
    IF fix = "applied" THEN ApplyBatch(text, batch, 0) ELSE text

FixCommand(ctx) ==
    /\ nCmds < MaxCommands
    /\ nCmds' = nCmds + 1
    /\ IF IsHtmlContext(ctx)
       THEN \E r \in {checkSemanticIssues(docText, lastIndex, rulesKind)} :
            \E batch \in {applyFixes(docText, r.issues)} :
            LET fixes == IF r.outcome = "threw" THEN {"none"}
                         ELSE IF batch = {} THEN {"nothing"}
                         ELSE {"declined"} \cup
                              (IF Overlapping(batch) THEN {} ELSE {"applied"})
                              \cup {"failed"}
            IN  \E fix \in fixes :
                /\ lastIndex' = r.lastIndex
                /\ last' = [cmd |-> "fix", ctx |-> ctx, text |-> docText,
                            outcome |-> r.outcome, issues |-> r.issues,
                            evaluated |-> r.evaluated,
                            messages |->
                               CASE fix = "applied" -> <<MsgFixed>>
                                 [] fix = "failed"  -> <<MsgFixFailed>>
                                 [] fix = "nothing" -> <<MsgNothingToFix>>
                                 [] OTHER           -> <<>>,
                            fix |-> fix, before |-> lastIndex]
                /\ docText' = CommitBatch(docText, batch, fix)
       ELSE /\ last' = [cmd |-> "fix", ctx |-> ctx, text |-> <<>>,
                        outcome |-> "notHtml", issues |-> <<>>, evaluated |-> {},
                        messages |-> <<MsgNotHtml>>, fix |-> "none",
                        before |-> lastIndex]
            /\ UNCHANGED <<lastIndex, docText>>
    /\ UNCHANGED <<typed, rulesKind, collections, pre, report, ext,
                   contrast>>

(***************************************************************************)
(* Command surface.  The manifest contributes two commands; activate       *)
(* registers a handler for extension.checkSemanticHTML only, so the host   *)
(* answers the other one with "command not found" and runs no handler.     *)
(***************************************************************************)
contributes_commands ==
    {"extension.checkSemanticHTML", "extension.fixSemanticHTML"}

registerCommand == {"extension.checkSemanticHTML"}

MsgCommandNotFound == Msg("error", "command not found", 0)

CommandNotFound(c, ctx) ==
    /\ c \in contributes_commands \ registerCommand
    /\ nCmds < MaxCommands
    /\ nCmds' = nCmds + 1
    /\ last' = [cmd |-> c, ctx |-> ctx, text |-> <<>>,
                outcome |-> "notFound", issues |-> <<>>, evaluated |-> {},
                messages |-> <<MsgCommandNotFound>>, fix |-> "none",
                before |-> lastIndex]
    /\ UNCHANGED <<docText, typed, rulesKind, lastIndex, collections, pre,
                   report, ext, contrast>>

Next ==
    \/ \E f \in Frags : Type(f)
    \/ \E ctx \in Contexts : CheckCommand(ctx)
    \/ \E c \in contributes_commands, ctx \in Contexts : CommandNotFound(c, ctx)

Spec == Init /\ [][Next]_vars

(***************************************************************************)
(* Scans of the documented scenarios with either catalog file: the final   *)
(* catalog or the one of src/scripts/rules.js.                             *)
(***************************************************************************)
InitScenario ==
    /\ docText = <<>>
    /\ typed = 0
    /\ rulesKind \in {"array", "legacy"}
    /\ lastIndex = [id \in RuleIds |-> 0]
    /\ last = NoCommand
    /\ collections = <<>>
    /\ nCmds = 0
    /\ pre = NoPre
    /\ report = NoReport
    /\ ext = NoExt
    /\ contrast = NoContrast

NextScenario ==
    \/ \E f \in ScenarioFrags : Type(f)
    \/ \E ctx \in Contexts : CheckCommand(ctx)

SpecScenario == InitScenario /\ [][NextScenario]_vars

(***************************************************************************)
(* Scans with edits that remove text in between: the user deletes the      *)
(* whole text of the document.                                             *)
(***************************************************************************)
Erase ==
    /\ docText # <<>>
    /\ docText' = <<>>
    /\ last' = NoCommand
    /\ UNCHANGED <<typed, rulesKind, lastIndex, collections, nCmds, pre, report, ext,
                   contrast>>

NextDiag ==
    \/ \E f \in ScenarioFrags : Type(f)
    \/ Erase
    \/ \E ctx \in Contexts : CheckCommand(ctx)

SpecDiag == InitScenario /\ [][NextDiag]_vars

(***************************************************************************)
(* Scans of documents with headings, with either catalog file.             *)
(***************************************************************************)
NextHeading ==
    \/ \E f \in HeadingFrags : Type(f)
    \/ \E ctx \in Contexts : CheckCommand(ctx)

SpecHeading == InitScenario /\ [][NextHeading]_vars

(***************************************************************************)
(* The fix operation (scan and offer fixes) with the final catalog.        *)
(***************************************************************************)
InitFix ==
    /\ docText = <<>>
    /\ typed = 0
    /\ rulesKind = "array"
    /\ lastIndex = [id \in RuleIds |-> 0]
    /\ last = NoCommand
    /\ collections = <<>>
    /\ nCmds = 0
    /\ pre = NoPre
    /\ report = NoReport
    /\ ext = NoExt
    /\ contrast = NoContrast

NextFix ==
    \/ \E f \in FixFrags : Type(f)
    \/ \E ctx \in Contexts : FixCommand(ctx)

SpecFix == InitFix /\ [][NextFix]_vars

(***************************************************************************)
(* The preprocessor as a function of its input.                            *)
(***************************************************************************)
InitPre ==
    /\ docText \in PreDocs
    /\ typed = 0
    /\ rulesKind = "array"
    /\ lastIndex = [id \in RuleIds |-> 0]
    /\ last = NoCommand
    /\ collections = <<>>
    /\ nCmds = 0
    /\ pre = NoPre
    /\ report = NoReport
    /\ ext = NoExt
    /\ contrast = NoContrast

Preprocess ==
    /\ ~pre.done
    /\ pre' = [done |-> TRUE, input |-> docText, output |-> preprocess(docText)]
    /\ UNCHANGED <<docText, typed, rulesKind, lastIndex, last, collections, nCmds,
                   report, ext, contrast>>

NextPre == Preprocess

SpecPre == InitPre /\ [][NextPre]_vars

(***************************************************************************)
(* Report assembler: summarize(findings) gives the total and the count of  *)
(* findings per severity level, levels compared ignoring letter case.      *)
(* (The timestamp of the record is left out.)                              *)
(***************************************************************************)
UpperChar(c) ==
    IF c \in LowerLetters THEN CHOOSE u \in UpperLetters : UpperMap[u] = c
    ELSE c

toUpperCase(s) == [k \in 1..Len(s) |-> UpperChar(s[k])]

SeverityLevels == {<<"A">>, <<"A","A">>, <<"A","A","A">>}

summarize_caseSensitive(findings) ==
    [total |-> Len(findings),
     bySeverity |->
        [L \in SeverityLevels |->
            Cardinality({n \in 1..Len(findings) : findings[n].level = L})]]

summarize(findings) ==
    [total |-> Len(findings),
     bySeverity |->
        [L \in SeverityLevels |->
            Cardinality({n \in 1..Len(findings) :
                            toUpperCase(findings[n].level) = L})]]

InitSum ==
    /\ docText = <<>>
    /\ typed = 0
    /\ rulesKind = "array"
    /\ lastIndex = [id \in RuleIds |-> 0]
    /\ last = NoCommand
    /\ collections = <<>>
    /\ nCmds = 0
    /\ pre = NoPre
    /\ report \in {[NoReport EXCEPT !.findings = fs] : fs \in FindingLists}
    /\ ext = NoExt
    /\ contrast = NoContrast

Summarize ==
    /\ ~report.done
    /\ \E r \in {summarize(report.findings)} :
          report' = [done |-> TRUE, findings |-> report.findings,
                     total |-> r.total, bySeverity |-> r.bySeverity]
    /\ UNCHANGED <<docText, typed, rulesKind, lastIndex, last, collections,
                   nCmds, pre, ext, contrast>>

NextSum == Summarize

SpecSum == InitSum /\ [][NextSum]_vars

(***************************************************************************)
(* The contrast functions as functions of their argument.                  *)
(***************************************************************************)
\* two-character channel texts of well-formed colours
ChannelTexts == {<<"0","0">>, <<"7","6">>, <<"7","7">>, <<"F","F">>, <<"f","f">>}

\* # and three channels
HexColours == {<<"#">> \o r \o g \o b : r, g, b \in ChannelTexts}

\* texts that are not # and six hexadecimal digits
OtherColours ==
    { <<>>,
      <<"r","e","d">>,
      <<"#","1","2","3","4","5">>,
      <<"#","1","2","3","4","5","6","7">>,
      <<"#","G","G","G","G","G","G">>,
      <<"#","-","1","-","1","-","1">>,
      <<"#","0","x","0","x","0","x">>,
      <<"#","1","2","3","4","5","g">>,
      <<"7","7","7","7","7","7","#">>,
      <<"c","o","l","o","r",":"," ","#","7","7","7","7","7","7">> }

InitContrast ==
    /\ docText = <<>>
    /\ typed = 0
    /\ rulesKind = "array"
    /\ lastIndex = [id \in RuleIds |-> 0]
    /\ last = NoCommand
    /\ collections = <<>>
    /\ nCmds = 0
    /\ pre = NoPre
    /\ report = NoReport
    /\ ext = NoExt
    /\ contrast \in {[NoContrast EXCEPT !.input = c] :
                        c \in HexColours \cup OtherColours}

EvalContrast ==
    /\ ~contrast.done
    /\ contrast' = [done |-> TRUE, input |-> contrast.input,
                    valid |-> isValidContrast(contrast.input),
                    rgb |-> hexToRgb(contrast.input)]
    /\ UNCHANGED <<docText, typed, rulesKind, lastIndex, last, collections,
                   nCmds, pre, report, ext>>

NextContrast == EvalContrast

SpecContrast == InitContrast /\ [][NextContrast]_vars

(***************************************************************************)
(* The first version of the checker: checkSemanticIssues of extension.js   *)
(* with its built-in checks and detectTextAlternatives.  The model keeps   *)
(* the checks 1.1.1 (images), 1.4.3 (contrast), 2.5.3 and 3.3.1 (inputs)   *)
(* and 3.1.1 (language), in the order of the code; the patterns of the     *)
(* other checks match nothing in the documents examined.  The patterns are *)
(* created by each call, so every loop starts at offset 0.                 *)
(***************************************************************************)
L_alt_quote == <<"a","l","t","=","\"">>
L_color_colon == <<"c","o","l","o","r",":">>
L_label_undefined ==
    <<"<","l","a","b","e","l"," ","f","o","r","=","\"","u","n","d","e","f","i","n","e","d","\"",">">>
L_html_lang == <<"<","h","t","m","l"," ","l","a","n","g","=","\"">>

\* end of a match of  color:\s*#[0-9a-fA-F]{6}  that begins at offset p,
\* -1 when the pattern does not match there
ColorDeclEnd(text, p) ==
    IF ~StartsWithAt(text, p, L_color_colon) THEN -1
    ELSE LET a == SkipClass(text, p + Len(L_color_colon), SpaceChars)
         IN  IF /\ a + 7 <= Len(text)
                /\ text[a + 1] = "#"
                /\ \A k \in 2..7 : text[a + k] \in HexChars
             THEN a + 7
             ELSE -1

\* /color:\s*#[0-9a-fA-F]{6}/g
ColorDeclExec(text, from) ==
    IF \E p \in from..(Len(text) - 1) : ColorDeclEnd(text, p) # -1
    THEN LET p == CHOOSE p \in from..(Len(text) - 1) :
                    /\ ColorDeclEnd(text, p) # -1
                    /\ \A q \in from..(p - 1) : ColorDeclEnd(text, q) = -1
         IN  [index |-> p, end |-> ColorDeclEnd(text, p)]
    ELSE NoMatch

\* regex.exec of the check
ExtExec(check, text, from) ==
    IF from > Len(text) THEN NoMatch
    ELSE CASE check = "1.1.1" -> OpenTagExec(text, from, {Tail(L_img)}, FALSE, FALSE)
           [] check = "1.4.3" -> ColorDeclExec(text, from)
           [] check \in {"2.5.3", "3.3.1"} ->
                 OpenTagExec(text, from, {L_input}, FALSE, FALSE)

\* the condition under which the check pushes an issue for a match.
\* inputTag is a string, so inputTag.id is undefined and the label looked
\* for is <label for="undefined">.
ExtFlags(check, tag, doc) ==
    CASE check = "1.1.1" -> ~Includes(tag, L_alt_quote)
      [] check = "1.4.3" -> ~isValidContrast(tag)
      [] check \in {"2.5.3", "3.3.1"} -> ~Includes(doc, L_label_undefined)

ExtMessage(check) ==
    CASE check = "1.1.1" -> "Image without alt text"
      [] check = "1.4.3" -> "Low contrast color detected"
      [] check \in {"2.5.3", "3.3.1"} -> "Form input without label"
      [] check = "3.1.1" -> "Missing language attribute in the <html> tag"

ExtIssue(check, text, match) ==
    [check     |-> check,
     message   |-> ExtMessage(check),
     startLine |-> positionAt(text, match.index).line,
     startChar |-> positionAt(text, match.index).character,
     endLine   |-> positionAt(text, match.end).line,
     endChar   |-> positionAt(text, match.end).character]

\* while ((match = regex.exec(documentText)) !== null) of one check
RECURSIVE ExtLoop(_, _, _, _)
ExtStep(check, text, issues, match) ==
    IF match = NoMatch THEN issues
    ELSE IF ExtFlags(check, Slice(text, match.index, match.end), text)
    THEN ExtLoop(check, text, match.end,
                 Append(issues, ExtIssue(check, text, match)))
    ELSE ExtLoop(check, text, match.end, issues)

ExtLoop(check, text, from, issues) ==
    ExtStep(check, text, issues, ExtExec(check, text, from))

\* 3.1.1: one issue at 0:0 when the text has no <html lang="
ExtLang(text, issues) ==
    IF ~Includes(text, L_html_lang)
    THEN Append(issues, [check |-> "3.1.1", message |-> ExtMessage("3.1.1"),
                         startLine |-> 0, startChar |-> 0,
                         endLine |-> 0, endChar |-> 0])
    ELSE issues

\* the issues pushed by the built-in checks, in the order of the code
ExtBuiltIn(text) ==
    ExtLoop("3.3.1", text, 0,
       ExtLang(text,
          ExtLoop("2.5.3", text, 0,
             ExtLoop("1.4.3", text, 0,
                ExtLoop("1.1.1", text, 0, <<>>)))))

\* the problems detectTextAlternatives finds (images without alt=")
RECURSIVE AltProblems(_, _)
AltProblemsStep(text, match) ==
    IF match = NoMatch THEN <<>>
    ELSE (IF ~Includes(Slice(text, match.index, match.end), L_alt_quote)
          THEN <<[message |-> "Imagen sin alt", start |-> match.index]>>
          ELSE <<>>) \o AltProblems(text, match.end)

AltProblems(text, from) ==
    AltProblemsStep(text, ExtExec("1.1.1", text, from))

\* detectTextAlternatives(documentText, issues), called with the document
\* as issues.  A document has no push method, so the first problem found
\* throws a TypeError; without a problem the function ends without a
\* return statement and its value is undefined.
detectTextAlternatives(text) ==
    IF AltProblems(text, 0) # <<>>
    THEN [threw |-> TRUE,  value |-> "none"]
    ELSE [threw |-> FALSE, value |-> "undefined"]

\* the end of checkSemanticIssues of extension.js:
\*   const altIssues = detectTextAlternatives(documentText, document);
\*   issues.push(...altIssues);  return issues;
\* spreading undefined throws a TypeError.
ExtFinish(issues, altIssues) ==
    IF altIssues.threw \/ altIssues.value = "undefined"
    THEN [outcome |-> "threw", issues |-> issues, returned |-> <<>>]
    ELSE [outcome |-> "returned", issues |-> issues, returned |-> issues]

checkSemanticIssues_ext(text) ==
    ExtFinish(ExtBuiltIn(text), detectTextAlternatives(text))

FragInput ==
    <<"<","i","n","p","u","t"," ","i","d","=","\"","n","\"",">">>
FragLabel ==
    <<"<","l","a","b","e","l"," ","f","o","r","=","\"","n","\"",">">>
FragColorLow ==
    <<"c","o","l","o","r",":"," ","#","7","7","7","7","7","7",";">>
FragColorHigh ==
    <<"c","o","l","o","r",":","#","0","0","0","0","0","0",";">>

\* fragments typed before a scan by the first version
ExtFrags == {FragInput, FragLabel, L_label_undefined, FragColorLow,
             FragColorHigh, FragImgNoAlt}

ExtSummaryMessage(issues) ==
    IF Len(issues) = 0
    THEN Msg("information", "The HTML is semantically correct.", 0)
    ELSE Msg("warning", "Found issues. See the editor for details.", Len(issues))

\* the command handler of extension.js
ExtCheckCommand(ctx) ==
    /\ nCmds < MaxCommands
    /\ nCmds' = nCmds + 1
    /\ IF IsHtmlContext(ctx)
       THEN \E r \in {checkSemanticIssues_ext(docText)} :
               /\ ext' = [done |-> TRUE, ctx |-> ctx, text |-> docText,
                          outcome |-> r.outcome, issues |-> r.issues,
                          returned |-> r.returned,
                          alt |-> AltProblems(docText, 0),
                          messages |->
                             IF r.outcome = "threw" THEN <<>>
                             ELSE <<ExtSummaryMessage(r.returned),
                                    showGitHubCopilotMessage>>]
               /\ collections' = IF r.outcome = "threw" THEN collections
                                 ELSE Append(collections, r.returned)
       ELSE /\ ext' = [done |-> TRUE, ctx |-> ctx, text |-> <<>>,
                       outcome |-> "notHtml", issues |-> <<>>,
                       returned |-> <<>>, alt |-> <<>>,
                       messages |-> <<MsgNotHtml>>]
            /\ UNCHANGED collections
    /\ last' = NoCommand
    /\ UNCHANGED <<docText, typed, rulesKind, lastIndex, pre, report, contrast>>

InitExt ==
    /\ docText = <<>>
    /\ typed = 0
    /\ rulesKind = "array"
    /\ lastIndex = [id \in RuleIds |-> 0]
    /\ last = NoCommand
    /\ collections = <<>>
    /\ nCmds = 0
    /\ pre = NoPre
    /\ report = NoReport
    /\ ext = NoExt
    /\ contrast = NoContrast

NextExt ==
    \/ \E f \in ExtFrags : Type(f)
    \/ \E ctx \in Contexts : ExtCheckCommand(ctx)

SpecExt == InitExt /\ [][NextExt]_vars

(***************************************************************************)
(* Properties.                                                             *)
(***************************************************************************)
\* a command has just scanned an HTML document with the catalog loaded
Scanned == last.cmd \in {"check", "fix"} /\ last.ctx = "html"

Returned == Scanned /\ last.outcome = "returned"

\* absolute offsets of a finding in the snapshot it was computed on
StartOffset(f) == offsetAt(last.text, f.startLine, f.startChar)
EndOffset(f)   == offsetAt(last.text, f.endLine, f.endChar)

\* C1 (as claimed): two consecutive scans of the same text with the same
\* catalog have the same result, whatever happened in earlier scans.
C1_Determinism ==
    [][(/\ Scanned
        /\ nCmds' = nCmds + 1
        /\ last'.ctx = "html"
        /\ last'.text = last.text)
       => (last'.outcome = last.outcome /\ last'.issues = last.issues)]_vars

\* C2: every finding's start and end positions are the positions of the
\* first character and of the end of a match of the owning rule's pattern,
\* so the slice of the snapshot between them is the matched, flagged text.
C2_OffsetFidelity ==
    Returned =>
        \A n \in 1..Len(last.issues) :
            LET f == last.issues[n]
                s == StartOffset(f)
                e == EndOffset(f)
                m == RegexExec(f.label, last.text, s)
            IN  /\ f.label \in RuleIds
                /\ s < e
                /\ m = [index |-> s, end |-> e]
                /\ positionAt(last.text, s) =
                      [line |-> f.startLine, character |-> f.startChar]
                /\ positionAt(last.text, e) =
                      [line |-> f.endLine, character |-> f.endChar]
                /\ Validate(f.label, Slice(last.text, s, e), last.text)

C2_Witness ==
    /\ Returned
    /\ \E n \in 1..Len(last.issues) :
          /\ last.issues[n].endLine > last.issues[n].startLine
          /\ StartOffset(last.issues[n]) > 0

\* [s, e) lies inside a comment of the text
InsideComment(text, s, e) ==
    \E a \in 0..s :
        /\ StartsWithAt(text, a, L_comment_open)
        /\ LET c == IndexOfFrom(text, L_comment_close, a + Len(L_comment_open))
           IN  e <= (IF c = -1 THEN Len(text) ELSE c + Len(L_comment_close))

\* C3 (as claimed): no finding of a scan lies inside an HTML comment.
C3_Neutralization ==
    Returned =>
        \A n \in 1..Len(last.issues) :
            ~InsideComment(last.text, StartOffset(last.issues[n]),
                           EndOffset(last.issues[n]))

\* C4: findings are in catalog order of their rule, and findings of one
\* rule are in increasing order of start offset.
C4_FindingOrder ==
    Returned =>
        \A i, j \in 1..Len(last.issues) :
            i < j =>
                LET f == last.issues[i]
                    g == last.issues[j]
                IN  \/ RuleIndex(f.label) < RuleIndex(g.label)
                    \/ /\ f.label = g.label
                       /\ StartOffset(f) < StartOffset(g)

C4_Witness ==
    /\ Returned
    /\ \E i, j \in 1..Len(last.issues) :
          /\ i < j
          /\ last.issues[i].label = "R1"
          /\ last.issues[j].label = "R46"
          /\ StartOffset(last.issues[i]) > StartOffset(last.issues[j])

\* C5 (as claimed): an exception in one rule's evaluation does not abort
\* the scan: every rule of the catalog is evaluated and findings returned.
C5_RuleIsolation ==
    (Scanned /\ IsArray(rulesKind)) =>
        /\ last.outcome = "returned"
        /\ last.evaluated = RuleIds

\* C6: a scan command with no editor or a non-HTML document shows the
\* error message, evaluates no pattern and publishes no diagnostics.
C6_ContextError ==
    [][(/\ nCmds' = nCmds + 1
        /\ last'.cmd = "check"
        /\ last'.ctx # "html")
       => /\ last'.messages = <<MsgNotHtml>>
          /\ last'.evaluated = {}
          /\ last'.issues = <<>>
          /\ last'.outcome = "notHtml"
          /\ lastIndex' = lastIndex
          /\ collections' = collections
          /\ docText' = docText]_vars

C6_Witness ==
    /\ last.cmd = "check"
    /\ last.ctx = "other"
    /\ docText # <<>>
    /\ last.messages = <<MsgNotHtml>>

\* C7 (as claimed): with a missing catalog the scan reports
\* 'Rules not loaded properly.' and returns an empty list.
C7_CatalogLoadError ==
    (last.cmd = "check" /\ last.ctx = "html" /\ ~IsArray(rulesKind)) =>
        /\ last.outcome = "returned"
        /\ last.issues = <<>>
        /\ \E n \in 1..Len(last.messages) : last.messages[n] = MsgRules

IsSummary(m) == m = MsgOk \/ (m.kind = "warning" /\ m.count > 0)

\* C8 (as claimed): a scan command on an HTML document shows exactly one
\* summary message: the success message iff there is no finding.
C8_SummaryMessage ==
    (last.cmd = "check" /\ last.ctx = "html" /\ IsArray(rulesKind)) =>
        /\ Cardinality({n \in 1..Len(last.messages) : IsSummary(last.messages[n])}) = 1
        /\ (\E n \in 1..Len(last.messages) : last.messages[n] = MsgOk)
              <=> (last.issues = <<>>)

\* C9: the preprocessor output has the length of its input and a newline
\* at exactly the positions where the input has one.
C9_PreprocessLength ==
    pre.done =>
        /\ Len(pre.output) = Len(pre.input)
        /\ \A k \in 1..Len(pre.input) :
              (pre.output[k] = "\n") <=> (pre.input[k] = "\n")

C9_Witness ==
    /\ pre.done
    /\ \E k \in 2..Len(pre.input) :
          /\ pre.input[k] = "\n"
          /\ pre.input[k - 1] # Filler
          /\ pre.output[k - 1] = Filler

\* new is orig with the alt attribute text inserted once inside each span,
\* nothing else changed; o is the checked prefix of orig, d the shift.
RECURSIVE OnlyAltInserted(_, _, _, _, _)
OnlyAltInserted(orig, new, spans, o, d) ==
    IF spans = <<>>
    THEN Slice(orig, o, Len(orig)) = Slice(new, o + d, Len(new))
    ELSE \E p \in (Head(spans).start + 1)..(Head(spans).end - 1) :
            /\ p >= o
            /\ Slice(orig, o, p) = Slice(new, o + d, p + d)
            /\ StartsWithAt(new, p + d, L_alt_description)
            /\ OnlyAltInserted(orig, new, Tail(spans), p,
                               d + Len(L_alt_description))

OnlyR1Fixed ==
    /\ last.cmd = "fix"
    /\ last.fix = "applied"
    /\ \A n \in 1..Len(last.issues) : last.issues[n].label = "R1"

\* C10: when all findings are R1 findings, the applied fix batch inserts
\* the alt attribute inside every flagged tag and changes nothing else.
C10_AutofixSafety ==
    OnlyR1Fixed =>
        OnlyAltInserted(last.text, docText,
            [n \in 1..Len(last.issues) |->
                [start |-> StartOffset(last.issues[n]),
                 end   |-> EndOffset(last.issues[n])]],
            0, 0)

C10_Witness ==
    /\ OnlyR1Fixed
    /\ Len(last.issues) = 2
    /\ last.issues[2].endLine > last.issues[2].startLine

\* a fix command has just scanned an HTML document and got a finding list
FixScanned == last.cmd = "fix" /\ last.ctx = "html" /\ last.outcome = "returned"

\* the batch that the fix command computed on its snapshot
LastBatch == applyFixes(last.text, last.issues)

\* the replacements of order applied one after the other, each span moved
\* by the length changes of the replacements already applied before it
RECURSIVE ShiftOf(_, _)
ShiftOf(applied, r) ==
    IF applied = <<>> THEN 0
    ELSE (IF Head(applied).start < r.start
          THEN Len(Head(applied).newText) - (Head(applied).end - Head(applied).start)
          ELSE 0) + ShiftOf(Tail(applied), r)

RECURSIVE ApplyInOrder(_, _, _)
ApplyInOrder(text, order, applied) ==
    IF order = <<>> THEN text
    ELSE ApplyInOrder(
             Slice(text, 0, Head(order).start + ShiftOf(applied, Head(order)))
                \o Head(order).newText
                \o Slice(text, Head(order).end + ShiftOf(applied, Head(order)),
                         Len(text)),
             Tail(order), Append(applied, Head(order)))

Orders(batch) ==
    {o \in [1..Cardinality(batch) -> batch] :
        \A i, j \in 1..Cardinality(batch) : i # j => o[i] # o[j]}

C12_AutofixAtomicity ==
    [][(nCmds' = nCmds + 1 /\ last'.cmd = "fix")
       => /\ (last'.fix = "failed")
               => (docText' = docText /\ last'.messages = <<MsgFixFailed>>)
          /\ (last'.fix # "applied") => docText' = docText
          /\ (last'.fix = "applied")
               => (docText' = ApplyBatch(docText,
                                applyFixes(docText, last'.issues), 0)
                   /\ last'.messages = <<MsgFixed>>)]_vars

C12_Witness ==
    /\ FixScanned
    /\ last.fix = "failed"
    /\ Cardinality(LastBatch) >= 2
    /\ ~Overlapping(LastBatch)
    /\ docText = last.text

\* a and b are the same level ignoring letter case
SameLevel(a, b) ==
    /\ Len(a) = Len(b)
    /\ \A k \in 1..Len(a) : LowerChar(a[k]) = LowerChar(b[k])

RECURSIVE SumOver(_, _)
SumOver(f, S) ==
    IF S = {} THEN 0
    ELSE LET x == CHOOSE y \in S : TRUE IN f[x] + SumOver(f, S \ {x})

\* C13: summarize gives the number of findings as total and, for each of
\* the levels A, AA and AAA, the number of findings of that level ignoring
\* letter case; the counts add up to the total.
C13_SeverityGrouping ==
    report.done =>
        /\ report.total = Len(report.findings)
        /\ DOMAIN report.bySeverity = SeverityLevels
        /\ \A L \in SeverityLevels :
              report.bySeverity[L] =
                 Cardinality({n \in 1..Len(report.findings) :
                                 SameLevel(report.findings[n].level, L)})
        /\ SumOver(report.bySeverity, SeverityLevels) = report.total
        /\ (report.findings = <<>>) => report.total = 0

C13_Witness ==
    /\ report.done
    /\ report.findings = << [level |-> <<"A">>], [level |-> <<"A","A">>],
                            [level |-> <<"A">>], [level |-> <<"A","A","A">>] >>
    /\ report.total = 4
    /\ report.bySeverity[<<"A">>] = 2
    /\ report.bySeverity[<<"A","A">>] = 1
    /\ report.bySeverity[<<"A","A","A">>] = 1

\* C14 (as claimed): a scan of <img src="a.png"> returns exactly one
\* finding; it is labelled R1, R1 has level A, and its span is the whole tag.
C14_ScenarioImg ==
    (Returned /\ last.cmd = "check" /\ last.text = FragImgNoAlt) =>
        /\ Len(last.issues) = 1
        /\ last.issues[1].label = "R1"
        /\ \E k \in RuleSlots :
              /\ rules[k].id = "R1"
              /\ "level" \in DOMAIN rules[k]
              /\ rules[k].level = "A"
        /\ StartOffset(last.issues[1]) = 0
        /\ EndOffset(last.issues[1]) = Len(FragImgNoAlt)

\* the rules about tables
TableRules == {"R22", "R23", "R35"}

\* C15 (as claimed): a scan of <table><tr><td>x</td></tr></table> returns
\* a finding of R23 (missing caption) and a finding of R22 (missing
\* semantic structure) and no finding of a rule that is not about tables.
C15_ScenarioTable ==
    (Returned /\ last.cmd = "check" /\ last.text = FragTable) =>
        /\ \E n \in 1..Len(last.issues) : last.issues[n].label = "R22"
        /\ \E n \in 1..Len(last.issues) : last.issues[n].label = "R23"
        /\ \A n \in 1..Len(last.issues) : last.issues[n].label \in TableRules

\* C16 (as claimed): a contributed command invoked on an HTML document
\* reaches its handler, which runs a scan.
C16_TriggerSurface ==
    (last.cmd # "none" /\ last.ctx = "html") =>
        last.outcome \in {"returned", "threw"}

\* the rules that have an autofix transform
FixableRules == {"R1", "R7", "R10"}

NoRescan == [id \in RuleIds |-> 0]

C18_UniqueIds ==
    /\ \A i, j \in 1..Len(catalogIds) : i # j => catalogIds[i] # catalogIds[j]
    /\ \A k \in RuleSlots : \E i \in 1..Len(catalogIds) : catalogIds[i] = rules[k].id
    /\ \A k, l \in RuleSlots : (k # l) => rules[k].id # rules[l].id

C18_Witness ==
    /\ Returned
    /\ last.evaluated = RuleIds
    /\ \E i, j \in 1..Len(last.issues) :
          last.issues[i].label # last.issues[j].label

\* the text of the span of a finding in the snapshot
SpanText(f) == Slice(last.text, StartOffset(f), EndOffset(f))

\* the rule of the finding has a transform and the transform changes the span
Registers(f) ==
    /\ \E k \in RuleSlots : rules[k].id = f.label /\ rules[k].autofix
    /\ Autofix(f.label, SpanText(f)) # NoFix
    /\ Autofix(f.label, SpanText(f)) # SpanText(f)

\* C19: the batch has a replacement for a finding exactly when the rule of
\* the finding has an autofix transform and the transform gives a text
\* different from the span text; other findings add nothing to the batch.
C19_ReplacementRegistration ==
    FixScanned =>
        LastBatch =
           {[start |-> StartOffset(f), end |-> EndOffset(f),
             newText |-> Autofix(f.label, SpanText(f))] :
               f \in {last.issues[n] : n \in {m \in 1..Len(last.issues) :
                                                Registers(last.issues[m])}}}

C19_Witness ==
    /\ FixScanned
    /\ \E n \in 1..Len(last.issues) : ~Registers(last.issues[n])
    /\ \E n \in 1..Len(last.issues) : Registers(last.issues[n])
    /\ Cardinality(LastBatch) = 1

\* C20 (as claimed): when the evaluation of a rule begins in a scan, the
\* pattern of the rule starts at offset 0 of the document.
C20_PatternReset ==
    Scanned => \A id \in last.evaluated : last.before[id] = 0

C22_UniformCatalog ==
    (Scanned /\ IsArray(rulesKind)) =>
        /\ \A k \in 1..Len(rules) :
              /\ ~IsHole(rules[k])
              /\ {"id", "level", "message"} \subseteq DOMAIN rules[k]
        /\ last.outcome = "returned"

\* C26 (as claimed): in a scan with a loaded catalog, computing the label of
\* a finding never throws, and the
\* label of every returned finding is the id of the rule that produced it:
\* it is not R?, the rule was evaluated in the scan, its message is the
\* message of the finding, its pattern matches exactly the span of the
\* finding and its predicate flags the tag.
C26_RuleIdLabel ==
    (Scanned /\ IsArray(rulesKind)) =>
        /\ last.outcome # "threw"
        /\ \A n \in 1..Len(last.issues) :
              /\ last.issues[n].label # "R?"
              /\ last.issues[n].label \in last.evaluated
              /\ rules[RuleIndex(last.issues[n].label)].message
                    = last.issues[n].message
              /\ RegexExec(last.issues[n].label, last.text,
                           StartOffset(last.issues[n]))
                    = [index |-> StartOffset(last.issues[n]),
                       end   |-> EndOffset(last.issues[n])]
              /\ Validate(last.issues[n].label,
                          Slice(last.text, StartOffset(last.issues[n]),
                                EndOffset(last.issues[n])),
                          last.text)

\* the diagnostics the host shows for the document: those of every
\* diagnostic collection that was created and never cleared or disposed
Displayed ==
    UNION {{collections[i][n] : n \in 1..Len(collections[i])} :
              i \in 1..Len(collections)}

\* C24 (as claimed): after a scan the diagnostics shown for the document
\* are the findings of that scan; no diagnostic of an earlier scan is left.
C24_DiagnosticsLatest ==
    (Returned /\ last.cmd = "check") =>
        Displayed = {last.issues[n] : n \in 1..Len(last.issues)}

\* the (rule, tag) pairs of a list of findings on a text
TagFindings(text, issues) ==
    {<<issues[n].label,
       Slice(text, offsetAt(text, issues[n].startLine, issues[n].startChar),
             offsetAt(text, issues[n].endLine, issues[n].endChar))>> :
        n \in 1..Len(issues)}

\* C25 (as claimed): after a fix batch was applied, a scan of the document
\* reports no (rule, tag) pair that the scan before the batch did not
\* report.
C25_AutofixNoNewFinding ==
    (FixScanned /\ last.fix = "applied") =>
        \A g \in {ForEachRule(1, docText, NoRescan, <<>>, {})} :
            TagFindings(docText, g.issues)
               \subseteq TagFindings(last.text, last.issues)

\* C30: R28 produces no finding.  No returned finding is labelled R28, and
\* wherever the pattern of R28 matches a heading tag of the scanned text the
\* predicate of R28, which searches the whole text for the same pattern, is
\* false.
C30_R28NoFinding ==
    Scanned =>
        /\ \A n \in 1..Len(last.issues) : last.issues[n].label # "R28"
        /\ \A p \in 0..Len(last.text) :
              \E m \in {RegexExec("R28", last.text, p)} :
                 (m # NoMatch) =>
                    ~Validate("R28", Slice(last.text, m.index, m.end), last.text)

\* a scan returned findings of other rules on a text where the pattern of
\* R28 matches a heading tag
C30_Witness ==
    /\ Returned
    /\ "R28" \in last.evaluated
    /\ Len(last.issues) > 0
    /\ RegexExec("R28", last.text, 0) # NoMatch

ExtScanned == ext.done /\ ext.ctx = "html"

\* C27 (as claimed): checkSemanticIssues of extension.js returns a list
\* without throwing; the list is the findings of the built-in checks
\* followed by one issue for each problem of detectTextAlternatives.
C27_ExtReturnsList ==
    ExtScanned =>
        /\ ext.outcome = "returned"
        /\ Len(ext.returned) = Len(ext.issues) + Len(ext.alt)
        /\ SubSeq(ext.returned, 1, Len(ext.issues)) = ext.issues

\* the value of the id attribute of a tag, <<>> when it has none
IdOf(tag) ==
    LET i == IndexOfFrom(tag, <<"i","d","=","\"">>, 0)
    IN  IF i = -1 THEN <<>>
        ELSE Slice(tag, i + 4, IndexOfFrom(tag, <<"\"">>, i + 4))

\* <label for="id">
LabelFor(id) ==
    <<"<","l","a","b","e","l"," ","f","o","r","=","\"">> \o id \o <<"\"",">">>

\* C28 (as claimed): an input tag is reported as Form input without label
\* only when the document has no <label for="..."> with the id of the input.
C28_InputLabel ==
    ExtScanned =>
        \A n \in 1..Len(ext.issues) :
            (ext.issues[n].check \in {"2.5.3", "3.3.1"}) =>
                ~Includes(ext.text,
                          LabelFor(IdOf(Slice(ext.text,
                              offsetAt(ext.text, ext.issues[n].startLine,
                                       ext.issues[n].startChar),
                              offsetAt(ext.text, ext.issues[n].endLine,
                                       ext.issues[n].endChar)))))

\* C29 (as claimed): a color: #RRGGBB declaration of the document is
\* reported as low contrast exactly when the contrast ratio of the colour
\* against white is below 4.5.
C29_LowContrast ==
    ExtScanned =>
        \A p \in 0..Len(ext.text) :
            \E m \in {ColorDeclExec(ext.text, p)} :
                (m # NoMatch) =>
                    ((\E n \in 1..Len(ext.issues) :
                         /\ ext.issues[n].check = "1.4.3"
                         /\ offsetAt(ext.text, ext.issues[n].startLine,
                                     ext.issues[n].startChar) = m.index
                         /\ offsetAt(ext.text, ext.issues[n].endLine,
                                     ext.issues[n].endChar) = m.end)
                     <=> ~AtLeast4_5(contrastRatio(
                             Slice(ext.text, m.end - 7, m.end), L_white)))

====
